---- MODULE Spec2Model ----
(***************************************************************************)
(* Model of the union backend's "existing path" tie-break policies         *)
(* EpLno (least number of objects) and EpLfs (least free space), from      *)
(* backend/union/policy/eplno.go.                                          *)
(*                                                                         *)
(* Upstreams are the ids 1..MaxUpstreams, an entry is identified with the  *)
(* upstream that produced it (UpstreamFs(e) = e), and 0 is the nil pointer *)
(* / nil interface.  int64 values are scaled to 0..MaxInt64; the code only *)
(* compares them, it never does arithmetic on them.                        *)
(***************************************************************************)
EXTENDS Integers, Sequences, FiniteSets, TLC

\* Number of upstreams of the union.
MaxUpstreams == 3
\* math.MaxInt64, scaled: the largest value an int64 metric can take.
MaxInt64 == 3
\* Length of the list shared by the two goroutines of SpecShared.
SharedLen == 2

Nil == 0
\* usage.Objects / usage.Free is nil, or updateUsage failed
Unsupported == -1

Ids == 1..MaxUpstreams
Int64Vals == 0..MaxInt64
UsageVals == Int64Vals \cup {Unsupported}
\* Opt.MinFreeSpace values: no reserve, and a reserve as large as the fallback
MinFreeVals == {0, MaxInt64 - 1}
Goroutines == {1, 2}

VARIABLES
    usage,          \* usage[u] = [objects, free]: the cached usage of upstream u
    minFreeSpace,   \* minFreeSpace[u] = u.Opt.MinFreeSpace
    arg,            \* the upstreams / entries argument of the call
    called,         \* the method that was called, "none" before the call
    backing,        \* the slice handed to the reduction, as the call leaves it
    retList,        \* the returned slice (Action / Create and entry variants)
    retOne,         \* the returned upstream / entry (Search, SearchEntries)
    err,            \* the returned error
    nFilter,        \* calls of the existing-path filter made by the call
    nShuffle,       \* calls of rand.Shuffle made by the call
    nQuery,         \* GetNumObjects / GetFreeSpace calls made by the call
    shared,         \* SpecShared: the backing list both goroutines reduce
    pc,             \* SpecShared: pc[g], the position of goroutine g
    si,             \* SpecShared: si[g], the shuffle's index i
    sj,             \* SpecShared: sj[g], the shuffle's random index j
    tmp,            \* SpecShared: tmp[g], the two operands the swap has read
    sk,             \* SpecShared: sk[g], the scan's index
    best,           \* SpecShared: best[g] = [min, who], the running best
    overlap         \* SpecShared: two swaps were in flight at the same time

seqVars == <<usage, minFreeSpace, arg, called, backing, retList, retOne, err,
             nFilter, nShuffle, nQuery>>
sharedVars == <<shared, pc, si, sj, tmp, sk, best, overlap>>
vars == <<usage, minFreeSpace, arg, called, backing, retList, retOne, err,
          nFilter, nShuffle, nQuery, shared, pc, si, sj, tmp, sk, best, overlap>>

Range(s) == {s[i] : i \in 1..Len(s)}
Prefix(n) == [i \in 1..n |-> i]

RECURSIVE SubSeqs(_)
SubSeqs(s) ==
    IF s = <<>> THEN {<<>>}
    ELSE LET rest == SubSeqs(Tail(s))
         IN rest \cup {<<Head(s)>> \o t : t \in rest}

(***************************************************************************)
(* Collaborators that are not part of eplno.go.                            *)
(***************************************************************************)

\* The existing-path filter (EpAll.Action, EpAll.Create, EpAll.ActionEntries,
\* EpAll.CreateEntries, EpAll.epall): the candidates on which the path
\* exists, in order, possibly none; or a hard error and no candidates.
filterExisting(list) ==
    {[list |-> s, err |-> "nil"] : s \in SubSeqs(list)}
        \cup {[list |-> <<>>, err |-> "filterError"]}

\* upstream.Fs.GetNumObjects: the object count, or 0 and an error.
GetNumObjects(us, u) ==
    IF us[u].objects = Unsupported
    THEN [val |-> 0, err |-> TRUE]
    ELSE [val |-> us[u].objects, err |-> FALSE]

\* upstream.Fs.GetFreeSpace: the free space, or "infinite" and an error.  The
\* infinite value is the largest one that can still be selected.
GetFreeSpace(us, u) ==
    IF us[u].free = Unsupported
    THEN [val |-> MaxInt64 - 1, err |-> TRUE]
    ELSE [val |-> us[u].free, err |-> FALSE]

\* the usage the queries of one call find: a fresh report for every candidate
RefreshObjects(us, list, fresh) ==
    [u \in Ids |-> IF u \in Range(list)
                   THEN [us[u] EXCEPT !.objects = fresh[u]] ELSE us[u]]
RefreshFree(us, list, fresh) ==
    [u \in Ids |-> IF u \in Range(list)
                   THEN [us[u] EXCEPT !.free = fresh[u]] ELSE us[u]]

(***************************************************************************)
(* rand.Shuffle with the swap callback of the reductions.                  *)
(***************************************************************************)

\* the swap callback, upstreams[i], upstreams[j] = upstreams[j], upstreams[i]:
\* its two right-hand operands are read first, then assigned left to right
SwapRhs1(list, i, j) == list[j]

\* SwapRhs2 reading index j a second time
SwapRhs2SameIndex(list, i, j) == list[j]

SwapRhs2(list, i, j) == list[i]

Swap(list, i, j) ==
    [list EXCEPT ![i] = SwapRhs1(list, i, j), ![j] = SwapRhs2(list, i, j)]

\* the random draws of one shuffle: j in 1..i for every i = n, n-1, .., 2
ShuffleChoices(n) == {js \in [2..n -> 1..n] : \A i \in 2..n : js[i] <= i}

RECURSIVE ShuffleFrom(_, _, _)
ShuffleFrom(list, js, i) ==
    IF i < 2 THEN list ELSE ShuffleFrom(Swap(list, i, js[i]), js, i - 1)

Shuffle(list, js) == ShuffleFrom(list, js, Len(list))

(***************************************************************************)
(* The reductions.                                                         *)
(***************************************************************************)

NoBest == [min |-> MaxInt64, who |-> Nil]

\* LnoVisit with the comparison replaced by an inequality test
LnoVisitUnequal(b, u, q) ==
    IF b.min # q.val THEN [min |-> q.val, who |-> u] ELSE b

\* LnoVisit replacing the running best on a tie as well
LnoVisitOnTie(b, u, q) ==
    IF b.min >= q.val THEN [min |-> q.val, who |-> u] ELSE b

\* one iteration of lno's loop; q is what GetNumObjects returned
LnoVisit(b, u, q) ==
    IF b.min > q.val THEN [min |-> q.val, who |-> u] ELSE b

RECURSIVE LnoScan(_, _, _)
LnoScan(list, us, b) ==
    IF list = <<>> THEN b
    ELSE LnoScan(Tail(list), us, LnoVisit(b, Head(list), GetNumObjects(us, Head(list))))

lno(upstreams, js, us) ==
    LET sh == Shuffle(upstreams, js)
        b == LnoScan(sh, us, NoBest)
    IN [list |-> sh, who |-> b.who, queries |-> Len(sh),
        err |-> IF b.who = Nil THEN "ErrorObjectNotFound" ELSE "nil"]

\* one iteration of lnoEntries' loop
LnoEntriesVisit(b, e, q) ==
    IF b.min > q.val THEN [min |-> q.val, who |-> e] ELSE b

RECURSIVE LnoEntriesScan(_, _, _)
LnoEntriesScan(list, us, b) ==
    IF list = <<>> THEN b
    ELSE LnoEntriesScan(Tail(list), us,
                        LnoEntriesVisit(b, Head(list), GetNumObjects(us, Head(list))))

lnoEntries(entries, js, us) ==
    LET sh == Shuffle(entries, js)
        b == LnoEntriesScan(sh, us, NoBest)
    IN [list |-> sh, who |-> b.who, queries |-> Len(sh), err |-> "nil"]

\* LfsVisit without the reserve check
LfsVisitNoReserve(b, u, q, m) ==
    IF q.val < b.min THEN [min |-> q.val, who |-> u] ELSE b

\* LfsVisit without the comparison against the running best
LfsVisitNoCompare(b, u, q, m) ==
    IF q.val > m THEN [min |-> q.val, who |-> u] ELSE b

\* LfsVisit skipping an upstream whose query failed
LfsVisitSkipFailed(b, u, q, m) ==
    IF q.err THEN b
    ELSE IF q.val < b.min /\ q.val > m THEN [min |-> q.val, who |-> u] ELSE b

\* one iteration of lfs' loop; q is what GetFreeSpace returned, m is
\* int64(u.Opt.MinFreeSpace)
LfsVisit(b, u, q, m) ==
    IF q.val < b.min /\ q.val > m THEN [min |-> q.val, who |-> u] ELSE b

RECURSIVE LfsScan(_, _, _, _)
LfsScan(list, us, mfs, b) ==
    IF list = <<>> THEN b
    ELSE LfsScan(Tail(list), us, mfs,
                 LfsVisit(b, Head(list), GetFreeSpace(us, Head(list)), mfs[Head(list)]))

lfs(upstreams, js, us, mfs) ==
    LET sh == Shuffle(upstreams, js)
        b == LfsScan(sh, us, mfs, NoBest)
    IN [list |-> sh, who |-> b.who, queries |-> Len(sh),
        err |-> IF b.who = Nil THEN "errNoUpstreamsFound" ELSE "nil"]

\* one iteration of lfsEntries' loop
LfsEntriesVisit(b, e, q, m) ==
    IF q.val < b.min /\ q.val > m THEN [min |-> q.val, who |-> e] ELSE b

RECURSIVE LfsEntriesScan(_, _, _, _)
LfsEntriesScan(list, us, mfs, b) ==
    IF list = <<>> THEN b
    ELSE LfsEntriesScan(Tail(list), us, mfs,
                        LfsEntriesVisit(b, Head(list), GetFreeSpace(us, Head(list)),
                                        mfs[Head(list)]))

lfsEntries(entries, js, us, mfs) ==
    LET sh == Shuffle(entries, js)
        b == LfsEntriesScan(sh, us, mfs, NoBest)
    IN [list |-> sh, who |-> b.who, queries |-> Len(sh),
        err |-> IF b.who = Nil THEN "errNoUpstreamsFound" ELSE "nil"]

\* IsEmpty with the early return left out
IsEmptyNever(list) == FALSE

\* len(upstreams) == 0, the first statement of Search and SearchEntries
IsEmpty(list) == Len(list) = 0

(***************************************************************************)
(* The calls.  Each is one atomic step from the state before the call.     *)
(* us is the usage the queries of the call find and r what the reduction   *)
(* returns.                                                                *)
(***************************************************************************)

Return(name, list, rl, ro, e, us, nf, ns, nq) ==
    /\ called' = name
    /\ backing' = list
    /\ retList' = rl
    /\ retOne' = ro
    /\ err' = e
    /\ usage' = us
    /\ nFilter' = nf
    /\ nShuffle' = ns
    /\ nQuery' = nq
    /\ UNCHANGED <<minFreeSpace, arg>>
    /\ UNCHANGED sharedVars

\* what the queries of the call report
Fresh(list) == [Range(list) -> UsageVals]

EpLnoAction ==
    /\ called = "none"
    /\ \E f \in filterExisting(arg) :
        IF f.err # "nil"
        THEN Return("EpLno.Action", <<>>, <<>>, Nil, f.err, usage, 1, 0, 0)
        ELSE \E js \in ShuffleChoices(Len(f.list)), fresh \in Fresh(f.list) :
            \E us \in {RefreshObjects(usage, f.list, fresh)} :
            \E r \in {lno(f.list, js, us)} :
                Return("EpLno.Action", r.list, <<r.who>>, Nil, r.err, us, 1, 1, r.queries)

EpLnoActionEntries ==
    /\ called = "none"
    /\ \E f \in filterExisting(arg) :
        IF f.err # "nil"
        THEN Return("EpLno.ActionEntries", <<>>, <<>>, Nil, f.err, usage, 1, 0, 0)
        ELSE \E js \in ShuffleChoices(Len(f.list)), fresh \in Fresh(f.list) :
            \E us \in {RefreshObjects(usage, f.list, fresh)} :
            \E r \in {lnoEntries(f.list, js, us)} :
                Return("EpLno.ActionEntries", r.list, <<r.who>>, Nil, r.err, us, 1, 1,
                      r.queries)

EpLnoCreate ==
    /\ called = "none"
    /\ \E f \in filterExisting(arg) :
        IF f.err # "nil"
        THEN Return("EpLno.Create", <<>>, <<>>, Nil, f.err, usage, 1, 0, 0)
        ELSE \E js \in ShuffleChoices(Len(f.list)), fresh \in Fresh(f.list) :
            \E us \in {RefreshObjects(usage, f.list, fresh)} :
            \E r \in {lno(f.list, js, us)} :
                Return("EpLno.Create", r.list, <<r.who>>, Nil, r.err, us, 1, 1, r.queries)

EpLnoCreateEntries ==
    /\ called = "none"
    /\ \E f \in filterExisting(arg) :
        IF f.err # "nil"
        THEN Return("EpLno.CreateEntries", <<>>, <<>>, Nil, f.err, usage, 1, 0, 0)
        ELSE \E js \in ShuffleChoices(Len(f.list)), fresh \in Fresh(f.list) :
            \E us \in {RefreshObjects(usage, f.list, fresh)} :
            \E r \in {lnoEntries(f.list, js, us)} :
                Return("EpLno.CreateEntries", r.list, <<r.who>>, Nil, r.err, us, 1, 1,
                      r.queries)

EpLnoSearch ==
    /\ called = "none"
    /\ IF IsEmpty(arg)
       THEN Return("EpLno.Search", <<>>, <<>>, Nil, "ErrorObjectNotFound", usage, 0, 0, 0)
       ELSE \E f \in filterExisting(arg) :
            IF f.err # "nil"
            THEN Return("EpLno.Search", <<>>, <<>>, Nil, f.err, usage, 1, 0, 0)
            ELSE \E js \in ShuffleChoices(Len(f.list)), fresh \in Fresh(f.list) :
                \E us \in {RefreshObjects(usage, f.list, fresh)} :
                \E r \in {lno(f.list, js, us)} :
                    Return("EpLno.Search", r.list, <<>>, r.who, r.err, us, 1, 1, r.queries)

EpLnoSearchEntries ==
    /\ called = "none"
    /\ IF IsEmpty(arg)
       THEN Return("EpLno.SearchEntries", <<>>, <<>>, Nil, "ErrorObjectNotFound", usage,
                   0, 0, 0)
       ELSE \E js \in ShuffleChoices(Len(arg)), fresh \in Fresh(arg) :
            \E us \in {RefreshObjects(usage, arg, fresh)} :
            \E r \in {lnoEntries(arg, js, us)} :
                Return("EpLno.SearchEntries", r.list, <<>>, r.who, r.err, us, 0, 1,
                      r.queries)

EpLfsAction ==
    /\ called = "none"
    /\ \E f \in filterExisting(arg) :
        IF f.err # "nil"
        THEN Return("EpLfs.Action", <<>>, <<>>, Nil, f.err, usage, 1, 0, 0)
        ELSE \E js \in ShuffleChoices(Len(f.list)), fresh \in Fresh(f.list) :
            \E us \in {RefreshFree(usage, f.list, fresh)} :
            \E r \in {lfs(f.list, js, us, minFreeSpace)} :
                Return("EpLfs.Action", r.list, <<r.who>>, Nil, r.err, us, 1, 1, r.queries)

EpLfsActionEntries ==
    /\ called = "none"
    /\ \E f \in filterExisting(arg) :
        IF f.err # "nil"
        THEN Return("EpLfs.ActionEntries", <<>>, <<>>, Nil, f.err, usage, 1, 0, 0)
        ELSE \E js \in ShuffleChoices(Len(f.list)), fresh \in Fresh(f.list) :
            \E us \in {RefreshFree(usage, f.list, fresh)} :
            \E r \in {lfsEntries(f.list, js, us, minFreeSpace)} :
                Return("EpLfs.ActionEntries", r.list, <<r.who>>, Nil, r.err, us, 1, 1,
                      r.queries)

EpLfsCreate ==
    /\ called = "none"
    /\ \E f \in filterExisting(arg) :
        IF f.err # "nil"
        THEN Return("EpLfs.Create", <<>>, <<>>, Nil, f.err, usage, 1, 0, 0)
        ELSE \E js \in ShuffleChoices(Len(f.list)), fresh \in Fresh(f.list) :
            \E us \in {RefreshFree(usage, f.list, fresh)} :
            \E r \in {lfs(f.list, js, us, minFreeSpace)} :
                Return("EpLfs.Create", r.list, <<r.who>>, Nil, r.err, us, 1, 1, r.queries)

EpLfsCreateEntries ==
    /\ called = "none"
    /\ \E f \in filterExisting(arg) :
        IF f.err # "nil"
        THEN Return("EpLfs.CreateEntries", <<>>, <<>>, Nil, f.err, usage, 1, 0, 0)
        ELSE \E js \in ShuffleChoices(Len(f.list)), fresh \in Fresh(f.list) :
            \E us \in {RefreshFree(usage, f.list, fresh)} :
            \E r \in {lfsEntries(f.list, js, us, minFreeSpace)} :
                Return("EpLfs.CreateEntries", r.list, <<r.who>>, Nil, r.err, us, 1, 1,
                      r.queries)

EpLfsSearch ==
    /\ called = "none"
    /\ IF IsEmpty(arg)
       THEN Return("EpLfs.Search", <<>>, <<>>, Nil, "ErrorObjectNotFound", usage, 0, 0, 0)
       ELSE \E f \in filterExisting(arg) :
            IF f.err # "nil"
            THEN Return("EpLfs.Search", <<>>, <<>>, Nil, f.err, usage, 1, 0, 0)
            ELSE \E js \in ShuffleChoices(Len(f.list)), fresh \in Fresh(f.list) :
                \E us \in {RefreshFree(usage, f.list, fresh)} :
                \E r \in {lfs(f.list, js, us, minFreeSpace)} :
                    Return("EpLfs.Search", r.list, <<>>, r.who, r.err, us, 1, 1, r.queries)

EpLfsSearchEntries ==
    /\ called = "none"
    /\ IF IsEmpty(arg)
       THEN Return("EpLfs.SearchEntries", <<>>, <<>>, Nil, "ErrorObjectNotFound", usage,
                   0, 0, 0)
       ELSE \E js \in ShuffleChoices(Len(arg)), fresh \in Fresh(arg) :
            \E us \in {RefreshFree(usage, arg, fresh)} :
            \E r \in {lfsEntries(arg, js, us, minFreeSpace)} :
                Return("EpLfs.SearchEntries", r.list, <<>>, r.who, r.err, us, 0, 1,
                      r.queries)

SharedIdle ==
    /\ shared = <<>>
    /\ pc = [g \in Goroutines |-> "idle"]
    /\ si = [g \in Goroutines |-> 0]
    /\ sj = [g \in Goroutines |-> 0]
    /\ tmp = [g \in Goroutines |-> <<Nil, Nil>>]
    /\ sk = [g \in Goroutines |-> 0]
    /\ best = [g \in Goroutines |-> NoBest]
    /\ overlap = FALSE

Init ==
    /\ usage = [u \in Ids |-> [objects |-> Unsupported, free |-> Unsupported]]
    /\ minFreeSpace \in [Ids -> MinFreeVals]
    /\ arg \in {Prefix(n) : n \in 0..MaxUpstreams}
    /\ called = "none"
    /\ backing = <<>>
    /\ retList = <<>>
    /\ retOne = Nil
    /\ err = "nil"
    /\ nFilter = 0
    /\ nShuffle = 0
    /\ nQuery = 0
    /\ SharedIdle

Next ==
    \/ EpLnoAction
    \/ EpLnoActionEntries
    \/ EpLnoCreate
    \/ EpLnoCreateEntries
    \/ EpLnoSearch
    \/ EpLnoSearchEntries
    \/ EpLfsAction
    \/ EpLfsActionEntries
    \/ EpLfsCreate
    \/ EpLfsCreateEntries
    \/ EpLfsSearch
    \/ EpLfsSearchEntries

Spec == Init /\ [][Next]_vars

(***************************************************************************)
(* Properties of the calls.                                                *)
(***************************************************************************)

LnoHandleCalls == {"EpLno.Action", "EpLno.Create", "EpLno.Search"}
LnoEntryCalls == {"EpLno.ActionEntries", "EpLno.CreateEntries", "EpLno.SearchEntries"}
LfsHandleCalls == {"EpLfs.Action", "EpLfs.Create", "EpLfs.Search"}
LfsEntryCalls == {"EpLfs.ActionEntries", "EpLfs.CreateEntries", "EpLfs.SearchEntries"}
LnoCalls == LnoHandleCalls \cup LnoEntryCalls
LfsCalls == LfsHandleCalls \cup LfsEntryCalls
ListCalls == {"EpLno.Action", "EpLno.Create", "EpLno.ActionEntries", "EpLno.CreateEntries",
              "EpLfs.Action", "EpLfs.Create", "EpLfs.ActionEntries", "EpLfs.CreateEntries"}
SearchCalls == {"EpLno.Search", "EpLno.SearchEntries", "EpLfs.Search", "EpLfs.SearchEntries"}

\* the reduction of the call ran (the call got past the filter)
Ran == called # "none" /\ nShuffle = 1
\* the upstream / entry the call selected, Nil if none
Winner ==
    IF called \in ListCalls
    THEN (IF retList = <<>> THEN Nil ELSE retList[1])
    ELSE retOne
\* the metric of a candidate as the call saw it: the report, or the fallback
ObjectCount(u) == IF usage[u].objects = Unsupported THEN 0 ELSE usage[u].objects
FreeSpace(u) == IF usage[u].free = Unsupported THEN MaxInt64 - 1 ELSE usage[u].free
QueryFailed(u) ==
    IF called \in LnoCalls THEN usage[u].objects = Unsupported
    ELSE usage[u].free = Unsupported
Eligible(u) == FreeSpace(u) > minFreeSpace[u]
\* the usage in which every failed query is a successful report of the fallback
Healthy ==
    [u \in Ids |-> [objects |-> ObjectCount(u), free |-> FreeSpace(u)]]

\* C1: Action, Create, ActionEntries and CreateEntries of both policies: a
\* call that returns no error returns exactly one element, which is not nil
\* and is one of the candidates the existing-path filter passed on.
C1_OneNonNilCandidate ==
    (called \in ListCalls /\ err = "nil")
        => /\ Len(retList) = 1
           /\ retList[1] # Nil
           /\ retList[1] \in Range(backing)

\* C2: when the least-object-count reduction returns a winner, the winner is
\* a candidate and its object count (0 if its query failed) is at most the
\* object count (or fallback) of every candidate.
C2_LnoWinnerIsMinimal ==
    (Ran /\ called \in LnoCalls /\ Winner # Nil)
        => /\ Winner \in Range(backing)
           /\ \A u \in Range(backing) : ObjectCount(Winner) <= ObjectCount(u)

C2_Witness ==
    /\ Ran /\ called = "EpLno.Action"
    /\ Len(backing) >= 3
    /\ Winner # Nil /\ Winner # backing[1]
    /\ \E u \in Range(backing) : ObjectCount(u) > ObjectCount(Winner)

\* C3: whatever the least-free-space reduction returns has free space above
\* its own MinFreeSpace.
C3_LfsWinnerAboveReserve ==
    (Ran /\ called \in LfsCalls /\ Winner # Nil)
        => /\ Winner \in Range(backing)
           /\ FreeSpace(Winner) > minFreeSpace[Winner]

\* a candidate at or below its reserve has the least free space of all, and
\* another candidate is returned
C3_Witness ==
    /\ Ran /\ called = "EpLfs.Action" /\ Winner # Nil
    /\ \E u \in Range(backing) :
        /\ ~Eligible(u)
        /\ usage[u].free # Unsupported
        /\ \A v \in Range(backing) \ {u} : FreeSpace(u) < FreeSpace(v)

\* C4: when the least-free-space reduction returns a winner, its free space
\* is at most the free space of every eligible candidate.
C4_LfsWinnerIsMinimalEligible ==
    (Ran /\ called \in LfsCalls /\ Winner # Nil)
        => \A u \in Range(backing) : Eligible(u) => FreeSpace(Winner) <= FreeSpace(u)

\* an ineligible candidate with less free space is scanned first, the winner
\* is scanned before an eligible candidate with more free space
C4_Witness ==
    /\ Ran /\ called = "EpLfs.CreateEntries" /\ Winner # Nil
    /\ Len(backing) >= 3
    /\ ~Eligible(backing[1]) /\ FreeSpace(backing[1]) < FreeSpace(Winner)
    /\ backing[2] = Winner
    /\ Eligible(backing[3]) /\ FreeSpace(backing[3]) > FreeSpace(Winner)

\* C5: Search and SearchEntries of both policies, called with an empty list,
\* return ErrorObjectNotFound and no result, and have called neither the
\* filter nor the shuffle nor a metric query.
C5_EmptySearchIsNotFound ==
    (called \in SearchCalls /\ arg = <<>>)
        => /\ err = "ErrorObjectNotFound"
           /\ retOne = Nil
           /\ nFilter = 0 /\ nShuffle = 0 /\ nQuery = 0

C5_Witness ==
    /\ called = "EpLfs.Search" /\ arg = <<>>
    /\ err = "ErrorObjectNotFound"

\* C6: the least-free-space reduction returns errNoUpstreamsFound exactly
\* when no candidate has free space above its own MinFreeSpace, and never
\* returns ErrorObjectNotFound.
C6_NoUpstreamsIffNoneEligible ==
    (Ran /\ called \in LfsCalls)
        => /\ err # "ErrorObjectNotFound"
           /\ err \in {"nil", "errNoUpstreamsFound"}
           /\ (err = "errNoUpstreamsFound") <=> ~(\E u \in Range(backing) : Eligible(u))

\* the upstream / entry the reduction selects from the list as the call left
\* it when every failed query is replaced by a report of the fallback value
HealthyWinner ==
    CASE called \in LnoHandleCalls -> LnoScan(backing, Healthy, NoBest).who
      [] called \in LnoEntryCalls -> LnoEntriesScan(backing, Healthy, NoBest).who
      [] called \in LfsHandleCalls -> LfsScan(backing, Healthy, minFreeSpace, NoBest).who
      [] called \in LfsEntryCalls -> LfsEntriesScan(backing, Healthy, minFreeSpace, NoBest).who
      [] OTHER -> Nil

SoleFailed == Ran /\ Len(backing) = 1 /\ QueryFailed(backing[1])

\* in least-object-count a candidate whose query failed beats every
\* candidate with a positive count
FailedBeatsPositive ==
    (Ran /\ called \in LnoCalls /\ (\E u \in Range(backing) : QueryFailed(u)))
        => (Winner # Nil /\ ObjectCount(Winner) = 0)

\* C7 as stated: a failed query changes nothing but the value, and a failing
\* upstream that is the only candidate is returned without an error.
C7_FailedQueryIsFallback ==
    /\ Ran => Winner = HealthyWinner
    /\ SoleFailed => (Winner = backing[1] /\ err = "nil")
    /\ FailedBeatsPositive

\* C7, amended: a failed query changes nothing but the value; a failing
\* upstream that is the only candidate is returned without an error in
\* least-object-count, and in least-free-space exactly when its MinFreeSpace
\* is below the fallback value.
C7_FailedQueryIsFallbackAboveReserve ==
    /\ Ran => Winner = HealthyWinner
    /\ (SoleFailed /\ called \in LnoCalls) => (Winner = backing[1] /\ err = "nil")
    /\ (SoleFailed /\ called \in LfsCalls)
        => ((Winner = backing[1] /\ err = "nil") <=> minFreeSpace[backing[1]] < MaxInt64 - 1)
    /\ FailedBeatsPositive

\* a failing upstream wins least-free-space against an ineligible one
C7_Witness ==
    /\ Ran /\ called = "EpLfs.Search" /\ err = "nil"
    /\ Len(backing) = 2
    /\ QueryFailed(Winner)
    /\ \E u \in Range(backing) : ~QueryFailed(u) /\ FreeSpace(u) < FreeSpace(Winner)

\* C8: lno returns ErrorObjectNotFound exactly when its list is empty and a
\* member of the list otherwise; lnoEntries returns an error on an empty
\* list and a non-nil entry otherwise.
C8_LnoNotFoundIffEmpty ==
    /\ (Ran /\ called \in LnoHandleCalls)
        => /\ (err = "ErrorObjectNotFound") <=> (backing = <<>>)
           /\ backing # <<>> => Winner \in Range(backing)
    /\ (Ran /\ called \in LnoEntryCalls)
        => /\ backing = <<>> => err # "nil"
           /\ backing # <<>> => (Winner # Nil /\ Winner \in Range(backing))

\* the metric the policy of the call compares, and who may be selected
Metric(u) == IF called \in LnoCalls THEN ObjectCount(u) ELSE FreeSpace(u)
MaySelect(u) == called \in LnoCalls \/ Eligible(u)

\* C9: the winner is the first candidate, in shuffled order, among the
\* (eligible) candidates with the winning value; none of them has a better
\* value.
C9_WinnerIsFirstOfTies ==
    (Ran /\ Winner # Nil)
        => \E p \in 1..Len(backing) :
            /\ backing[p] = Winner
            /\ \A k \in 1..Len(backing) :
                MaySelect(backing[k])
                    => \/ Metric(backing[k]) > Metric(Winner)
                       \/ Metric(backing[k]) = Metric(Winner) /\ k >= p

\* A and B tie on the winning value, C is worse, and the shuffle makes B,
\* the second of the list passed in, the winner
C9_Witness ==
    /\ Ran /\ called = "EpLno.Create"
    /\ Range(backing) = {1, 2, 3}
    /\ ObjectCount(1) = ObjectCount(2) /\ ObjectCount(3) > ObjectCount(1)
    /\ Winner = 2

(***************************************************************************)
(* Two goroutines calling lno on the same backing list.  The swap of the   *)
(* shuffle is two reads and two writes of the list, and the scan reads one *)
(* element per iteration; nothing synchronises the goroutines.             *)
(***************************************************************************)

Other(g) == CHOOSE h \in Goroutines : h # g
\* g has read an operand of a swap and not yet written both
MidSwap(g) == pc[g] \in {"load2", "store1", "store2"}

\* lno is called: rand.Shuffle starts at i = n - 1 (here n, counting from 1)
Start(g) ==
    /\ pc[g] = "idle"
    /\ pc' = [pc EXCEPT ![g] = "draw"]
    /\ si' = [si EXCEPT ![g] = Len(shared)]
    /\ best' = [best EXCEPT ![g] = NoBest]
    /\ UNCHANGED <<shared, sj, tmp, sk, overlap>>
    /\ UNCHANGED seqVars

\* rand.Shuffle's loop: for i > 0, draw j in 0..i; after it the scan starts
Draw(g) ==
    /\ pc[g] = "draw"
    /\ IF si[g] < 2
       THEN /\ pc' = [pc EXCEPT ![g] = "scan"]
            /\ sk' = [sk EXCEPT ![g] = 1]
            /\ UNCHANGED sj
       ELSE /\ \E j \in 1..si[g] : sj' = [sj EXCEPT ![g] = j]
            /\ pc' = [pc EXCEPT ![g] = "load1"]
            /\ UNCHANGED sk
    /\ UNCHANGED <<shared, si, tmp, best, overlap>>
    /\ UNCHANGED seqVars

Load1(g) ==
    /\ pc[g] = "load1"
    /\ tmp' = [tmp EXCEPT ![g][1] = SwapRhs1(shared, si[g], sj[g])]
    /\ pc' = [pc EXCEPT ![g] = "load2"]
    /\ overlap' = (overlap \/ MidSwap(Other(g)))
    /\ UNCHANGED <<shared, si, sj, sk, best>>
    /\ UNCHANGED seqVars

Load2(g) ==
    /\ pc[g] = "load2"
    /\ tmp' = [tmp EXCEPT ![g][2] = SwapRhs2(shared, si[g], sj[g])]
    /\ pc' = [pc EXCEPT ![g] = "store1"]
    /\ overlap' = (overlap \/ MidSwap(Other(g)))
    /\ UNCHANGED <<shared, si, sj, sk, best>>
    /\ UNCHANGED seqVars

Store1(g) ==
    /\ pc[g] = "store1"
    /\ shared' = [shared EXCEPT ![si[g]] = tmp[g][1]]
    /\ pc' = [pc EXCEPT ![g] = "store2"]
    /\ overlap' = (overlap \/ MidSwap(Other(g)))
    /\ UNCHANGED <<si, sj, tmp, sk, best>>
    /\ UNCHANGED seqVars

Store2(g) ==
    /\ pc[g] = "store2"
    /\ shared' = [shared EXCEPT ![sj[g]] = tmp[g][2]]
    /\ si' = [si EXCEPT ![g] = si[g] - 1]
    /\ pc' = [pc EXCEPT ![g] = "draw"]
    /\ overlap' = (overlap \/ MidSwap(Other(g)))
    /\ UNCHANGED <<sj, tmp, sk, best>>
    /\ UNCHANGED seqVars

\* one iteration of for _, u := range upstreams, or the return after the last
ScanStep(g) ==
    /\ pc[g] = "scan"
    /\ IF sk[g] > Len(shared)
       THEN /\ pc' = [pc EXCEPT ![g] = "done"]
            /\ UNCHANGED <<sk, best>>
       ELSE /\ best' = [best EXCEPT ![g] =
                   LnoVisit(best[g], shared[sk[g]], GetNumObjects(usage, shared[sk[g]]))]
            /\ sk' = [sk EXCEPT ![g] = sk[g] + 1]
            /\ UNCHANGED pc
    /\ UNCHANGED <<shared, si, sj, tmp, overlap>>
    /\ UNCHANGED seqVars

InitShared ==
    /\ usage \in [Ids -> [objects : Int64Vals, free : {Unsupported}]]
    /\ \A u \in Ids : u > SharedLen => usage[u].objects = 0
    /\ minFreeSpace = [u \in Ids |-> 0]
    /\ arg = <<>>
    /\ called = "none"
    /\ backing = <<>>
    /\ retList = <<>>
    /\ retOne = Nil
    /\ err = "nil"
    /\ nFilter = 0
    /\ nShuffle = 0
    /\ nQuery = 0
    /\ shared = Prefix(SharedLen)
    /\ pc = [g \in Goroutines |-> "idle"]
    /\ si = [g \in Goroutines |-> 0]
    /\ sj = [g \in Goroutines |-> 0]
    /\ tmp = [g \in Goroutines |-> <<Nil, Nil>>]
    /\ sk = [g \in Goroutines |-> 0]
    /\ best = [g \in Goroutines |-> NoBest]
    /\ overlap = FALSE

NextShared ==
    \E g \in Goroutines :
        \/ Start(g)
        \/ Draw(g)
        \/ Load1(g)
        \/ Load2(g)
        \/ Store1(g)
        \/ Store2(g)
        \/ ScanStep(g)

SpecShared == InitShared /\ [][NextShared]_vars

\* the shared list holds every original candidate exactly once
IsPermutation == \A u \in 1..SharedLen : Cardinality({k \in 1..Len(shared) : shared[k] = u}) = 1
\* u has the least object count of the original candidates
IsLeast(u) == \A v \in 1..SharedLen : ObjectCount(u) <= ObjectCount(v)

\* C10: the shuffle works on the caller's list.  As long as no two swaps
\* were in flight at the same time the list is, between swaps, a permutation
\* of the original candidates, and a reduction that ran alone returns a
\* least candidate; with interleaved swaps neither need hold (C10_Witness).
C10_PermutationUnlessSwapsInterleave ==
    /\ (~overlap /\ \A g \in Goroutines : ~MidSwap(g)) => IsPermutation
    /\ \A g \in Goroutines :
        (pc[g] = "done" /\ pc[Other(g)] = "idle" /\ best[g].who # Nil)
            => IsLeast(best[g].who)

\* after interleaved swaps one candidate is duplicated and the least one is
\* lost, and both reductions return a candidate that is not the least
C10_Witness ==
    /\ overlap
    /\ ~IsPermutation
    /\ \A g \in Goroutines :
        /\ pc[g] = "done"
        /\ best[g].who # Nil
        /\ ~IsLeast(best[g].who)

====
